---- MODULE Spec2Model ----
(***************************************************************************)
(* Quiz submission / grading and lesson-progress / enrollment tracking of  *)
(* app/courses/services.py (CourseService), over the tables declared in    *)
(* app/courses/models.py.  The database variables hold the COMMITTED       *)
(* state: a handler's step that ends in "await db.commit()" is one action, *)
(* and what a handler has read or staged but not yet committed lives in    *)
(* its request record req[p].                                              *)
(***************************************************************************)
EXTENDS Integers, Sequences, FiniteSets, TLC

VARIABLES
    courses,            \* courses table: id -> [enrollment_limit]
    modules,            \* modules table (row id = index)
    lessons,            \* lessons table
    quizzes,            \* quizzes table: id -> [course_id, passing_score, max_attempts]
    enrollments,        \* enrollments table
    lesson_progress,    \* lesson_progress table
    quiz_attempts,      \* quiz_attempts table
    question_responses, \* question_responses table
    req                 \* per request slot: handler position and locals

vars == <<courses, modules, lessons, quizzes, enrollments, lesson_progress,
          quiz_attempts, question_responses, req>>

catalog == <<courses, modules, lessons, quizzes>>
quiz_tables == <<quiz_attempts, question_responses>>
progress_tables == <<enrollments, lesson_progress>>

----------------------------------------------------------------------------
(* Bounds of the model *)

MaxCatalogRows == 3
MaxAttempts == 2
MaxResponses == 2
MaxProgressRows == 4
MaxApplicants == 3
MaxEnrollments == 4
MaxFieldValue == 2

Students == {1, 2}
Procs == {1, 2}

----------------------------------------------------------------------------
(* Column values *)

\* NULL of an id or timestamp column (ids start at 1)
NULL == 0

\* datetime.utcnow(), written to a timestamp column that holds `stored`: a value
\* later than every value written before. A timestamp column holds the number of
\* times it has been written, so that a write always changes it.
utcnow(stored) == stored + 1
\* NULL of quiz_attempts.score (scores are kept in hundredths of a point)
NO_SCORE == -1000000
\* courses.enrollment_limit IS NULL
NO_LIMIT == -1

CourseIds == {1, 2}
QuizIds == {1, 2}

Truthy(x) == x # NULL /\ x # NO_LIMIT

\* floor(n / d + 1/2): a float stored into a Decimal(5, 2) column, as hundredths
RoundDiv(n, d) == (2 * n + d) \div (2 * d)

RECURSIVE SumSeq(_)
SumSeq(s) == IF s = <<>> THEN 0 ELSE Head(s) + SumSeq(Tail(s))

Ids(table) == 1..Len(table)

----------------------------------------------------------------------------
(* Request slots *)

IdleReq ==
    [pc |-> "idle", user_id |-> NULL, course_id |-> NULL, lesson_id |-> NULL,
     update_dict |-> <<>>, completed |-> FALSE,
     enrollment_id |-> NULL, enrollment_status |-> "none",
     progress_id |-> NULL, progress |-> <<>>,
     total_lessons |-> 0, completed_lessons |-> 0,
     quiz_id |-> NULL, responses |-> <<>>, attempt_count |-> 0, attempt_id |-> NULL]

\* the handler returned or raised: get_db closes the session, the slot is free again
Respond(p) == req' = [req EXCEPT ![p] = IdleReq]

\* what a handler's step answers: an HTTP status, or CONTINUE when the handler goes on
CONTINUE == 0

AllIdle == \A p \in Procs : req[p].pc = "idle"
InFlight == Cardinality({p \in Procs : req[p].pc # "idle"})

----------------------------------------------------------------------------
(* Catalog: create_module, create_lesson *)

Module(course_id, is_published) ==
    [course_id |-> course_id, is_published |-> is_published]

Lesson(module_id, is_published) ==
    [module_id |-> module_id, is_published |-> is_published]

create_module(course_id, is_published) ==
    /\ Len(modules) + Len(lessons) < MaxCatalogRows
    /\ course_id \in DOMAIN courses
    /\ modules' = Append(modules, Module(course_id, is_published))
    /\ UNCHANGED <<courses, lessons, quizzes, progress_tables, quiz_tables, req>>

create_lesson(module_id, is_published) ==
    /\ Len(modules) + Len(lessons) < MaxCatalogRows
    /\ module_id \in Ids(modules)
    /\ lessons' = Append(lessons, Lesson(module_id, is_published))
    /\ UNCHANGED <<courses, modules, quizzes, progress_tables, quiz_tables, req>>

\* lesson.module.course_id
LessonCourse(lesson_id) == modules[lessons[lesson_id].module_id].course_id

\* lines 604-615 (a mutant: the lesson's own is_published is not looked at)
EligibleAnyLesson(course_id) ==
    {l \in Ids(lessons) :
        /\ modules[lessons[l].module_id].course_id = course_id
        /\ modules[lessons[l].module_id].is_published}

\* Lesson JOIN Module WHERE Module.course_id = c AND Lesson.is_published AND Module.is_published
Eligible(course_id) ==
    {l \in Ids(lessons) :
        /\ modules[lessons[l].module_id].course_id = course_id
        /\ lessons[l].is_published
        /\ modules[lessons[l].module_id].is_published}

----------------------------------------------------------------------------
(* enroll_user *)

Enrollment(student_id, course_id) ==
    [student_id |-> student_id, course_id |-> course_id,
     started_at |-> NULL, completed_at |-> NULL,
     progress_percentage |-> 0, status |-> "enrolled", is_active |-> TRUE]

EnrollmentsOf(student_id, course_id) ==
    {e \in Ids(enrollments) : /\ enrollments[e].student_id = student_id
                               /\ enrollments[e].course_id = course_id}

ActiveEnrollmentsOf(student_id, course_id) ==
    {e \in Ids(enrollments) : /\ enrollments[e].student_id = student_id
                               /\ enrollments[e].course_id = course_id
                               /\ enrollments[e].is_active}

ActiveCount(course_id) ==
    Cardinality({e \in Ids(enrollments) : /\ enrollments[e].course_id = course_id
                                           /\ enrollments[e].is_active})

\* lines 199-209 (a mutant: the existence check looks at active rows only)
EnrollExistingActive(user_id, course_id) ==
    IF Cardinality(ActiveEnrollmentsOf(user_id, course_id)) > 1 THEN 500
    ELSE IF ActiveEnrollmentsOf(user_id, course_id) # {} THEN 400
    ELSE CONTINUE

\* lines 199-209: scalar_one_or_none() raises on two rows (500); 400 "Already enrolled"
EnrollExisting(user_id, course_id) ==
    IF Cardinality(EnrollmentsOf(user_id, course_id)) > 1 THEN 500
    ELSE IF EnrollmentsOf(user_id, course_id) # {} THEN 400
    ELSE CONTINUE

\* lines 199-209: the existence check
enroll_user_existing(p, user_id, course_id) ==
    /\ req[p].pc = "idle"
    /\ IF EnrollExisting(user_id, course_id) # CONTINUE
       THEN Respond(p)
       ELSE req' = [req EXCEPT ![p] = [IdleReq EXCEPT !.pc = "enroll_limit",
                        !.user_id = user_id, !.course_id = course_id]]
    /\ UNCHANGED <<catalog, progress_tables, quiz_tables>>

\* lines 211-223: 404 "Course not found"; 400 "Course enrollment limit reached"
EnrollLimit(course_id) ==
    IF course_id \notin DOMAIN courses THEN 404
    ELSE IF /\ Truthy(courses[course_id].enrollment_limit)
            /\ ActiveCount(course_id) >= courses[course_id].enrollment_limit
    THEN 400
    ELSE CONTINUE

\* lines 211-223: the course lookup and the limit check
enroll_user_limit(p) ==
    /\ req[p].pc = "enroll_limit"
    /\ IF EnrollLimit(req[p].course_id) # CONTINUE
       THEN Respond(p)
       ELSE req' = [req EXCEPT ![p].pc = "enroll_insert"]
    /\ UNCHANGED <<catalog, progress_tables, quiz_tables>>

\* lines 225-229: the insert and its commit
enroll_user_insert(p) ==
    /\ req[p].pc = "enroll_insert"
    /\ enrollments' = Append(enrollments, Enrollment(req[p].user_id, req[p].course_id))
    /\ Respond(p)
    /\ UNCHANGED <<catalog, lesson_progress, quiz_tables>>

----------------------------------------------------------------------------
(* update_lesson_progress *)

LessonProgress(enrollment_id, lesson_id) ==
    [enrollment_id |-> enrollment_id, lesson_id |-> lesson_id,
     completed_at |-> NULL, last_position |-> 0, is_completed |-> FALSE,
     time_spent_seconds |-> 0, notes |-> NULL]

ProgressOf(enrollment_id, lesson_id) ==
    {r \in Ids(lesson_progress) : /\ lesson_progress[r].enrollment_id = enrollment_id
                                   /\ lesson_progress[r].lesson_id = lesson_id}

\* lines 330-332 (a mutant: a full overwrite, absent fields go back to their defaults)
SetFieldsOverwrite(progress, update_dict) ==
    [f \in DOMAIN progress |->
        IF f \in DOMAIN update_dict THEN update_dict[f]
        ELSE IF f \in {"last_position", "time_spent_seconds", "notes"}
             THEN LessonProgress(progress.enrollment_id, progress.lesson_id)[f]
             ELSE progress[f]]

\* lines 330-332: for field, value in update_dict.items(): setattr(progress, field, value)
SetFields(progress, update_dict) ==
    [f \in DOMAIN progress |->
        IF f \in DOMAIN update_dict THEN update_dict[f] ELSE progress[f]]

\* lines 334-336 (a mutant: the record is stamped on every completed call)
MarkCompletedAgain(progress, completed, t) ==
    IF completed
    THEN [progress EXCEPT !.is_completed = TRUE, !.completed_at = t]
    ELSE progress

\* lines 334-336
MarkCompleted(progress, completed, t) ==
    IF completed /\ ~progress.is_completed
    THEN [progress EXCEPT !.is_completed = TRUE, !.completed_at = t]
    ELSE progress

\* the UPDATE the unit of work flushes: only the attributes that changed since the load
Flush(row, loaded, edited) ==
    [f \in DOMAIN row |-> IF edited[f] # loaded[f] THEN edited[f] ELSE row[f]]

\* lines 294-320: scalar_one() raises on an unknown lesson (500), scalar_one_or_none()
\* on two rows (500); 404 "Enrollment not found"
ProgressFetch(user_id, lesson_id) ==
    IF lesson_id \notin Ids(lessons) THEN 500
    ELSE IF Cardinality(ActiveEnrollmentsOf(user_id, LessonCourse(lesson_id))) > 1 THEN 500
    ELSE IF ActiveEnrollmentsOf(user_id, LessonCourse(lesson_id)) = {} THEN 404
    ELSE LET e == CHOOSE e \in ActiveEnrollmentsOf(user_id, LessonCourse(lesson_id)) : TRUE
         IN  IF Cardinality(ProgressOf(e, lesson_id)) > 1 THEN 500 ELSE CONTINUE

\* lines 294-320: the lesson, the active enrollment, the progress record
update_lesson_progress_fetch(p, user_id, lesson_id, update_dict, completed) ==
    /\ req[p].pc = "idle"
    /\ IF ProgressFetch(user_id, lesson_id) # CONTINUE
       THEN Respond(p)
       ELSE LET e == CHOOSE e \in ActiveEnrollmentsOf(user_id, LessonCourse(lesson_id)) : TRUE
                rows == ProgressOf(e, lesson_id)
            IN  /\ rows # {} \/ Len(lesson_progress) + InFlight < MaxProgressRows
                /\ req' = [req EXCEPT ![p] = [IdleReq EXCEPT
                      !.pc = "progress_commit",
                      !.user_id = user_id,
                      !.lesson_id = lesson_id,
                      !.update_dict = update_dict,
                      !.completed = completed,
                      !.course_id = enrollments[e].course_id,
                      !.enrollment_id = e,
                      !.enrollment_status = enrollments[e].status,
                      !.progress_id = IF rows = {} THEN NULL ELSE CHOOSE r \in rows : TRUE,
                      !.progress = IF rows = {} THEN LessonProgress(e, lesson_id)
                                   ELSE lesson_progress[CHOOSE r \in rows : TRUE]]]
    /\ UNCHANGED <<catalog, progress_tables, quiz_tables>>

\* lines 322-339: create or edit the record, mark it completed, commit
update_lesson_progress_commit(p) ==
    /\ req[p].pc = "progress_commit"
    /\ LET loaded == req[p].progress
           id == IF req[p].progress_id = NULL THEN Len(lesson_progress) + 1
                 ELSE req[p].progress_id
           stored == IF req[p].progress_id = NULL THEN loaded ELSE lesson_progress[id]
           edited == MarkCompleted(SetFields(loaded, req[p].update_dict),
                                   req[p].completed, utcnow(stored.completed_at))
       IN  /\ lesson_progress' =
                 IF req[p].progress_id = NULL
                 THEN Append(lesson_progress, edited)
                 ELSE [lesson_progress EXCEPT
                          ![id] = Flush(lesson_progress[id], loaded, edited)]
           /\ req' = [req EXCEPT ![p].pc = "recalc_total", ![p].progress_id = id]
    /\ UNCHANGED <<catalog, enrollments, quiz_tables>>

\* POST /lessons/{uuid}/complete: get_lesson_by_uuid answers 404 "Lesson not found"
\* (services.py 270-283), then update_lesson_progress answers; 200 when it returns
complete_lesson(user_id, lesson_id) ==
    IF lesson_id \notin Ids(lessons) THEN 404
    ELSE IF ProgressFetch(user_id, lesson_id) = CONTINUE THEN 200
    ELSE ProgressFetch(user_id, lesson_id)

----------------------------------------------------------------------------
(* _update_enrollment_progress, called by update_lesson_progress (line 342). *)
(* The session is created with expire_on_commit=False and the Enrollment is  *)
(* already in its identity map, so the SELECT of lines 597-602 returns the   *)
(* object loaded at lines 298-307: enrollment.status is req[p].              *)
(* enrollment_status. The two counts are SQL aggregates and read the table.  *)

\* lines 604-618 (a mutant: a course without eligible lessons counts as completed)
update_enrollment_progress_total_completes(p) ==
    /\ req[p].pc = "recalc_total"
    /\ LET total_lessons == Cardinality(Eligible(req[p].course_id)) IN
       IF total_lessons = 0
       THEN /\ enrollments' = [enrollments EXCEPT ![req[p].enrollment_id].status = "completed"]
            /\ Respond(p)
       ELSE /\ req' = [req EXCEPT ![p].pc = "recalc_completed",
                                  ![p].total_lessons = total_lessons]
            /\ UNCHANGED enrollments
    /\ UNCHANGED <<catalog, lesson_progress, quiz_tables>>

\* lines 604-618
update_enrollment_progress_total(p) ==
    /\ req[p].pc = "recalc_total"
    /\ LET total_lessons == Cardinality(Eligible(req[p].course_id)) IN
       IF total_lessons = 0
       THEN Respond(p)
       ELSE req' = [req EXCEPT ![p].pc = "recalc_completed",
                               ![p].total_lessons = total_lessons]
    /\ UNCHANGED <<catalog, progress_tables, quiz_tables>>

\* lines 620-633 (a mutant: every completed row of the enrollment is counted)
CompletedLessonsAll(enrollment_id, course_id) ==
    Cardinality({r \in Ids(lesson_progress) :
                    /\ lesson_progress[r].enrollment_id = enrollment_id
                    /\ lesson_progress[r].is_completed})

\* lines 620-633
CompletedLessons(enrollment_id, course_id) ==
    Cardinality({r \in Ids(lesson_progress) :
                    /\ lesson_progress[r].enrollment_id = enrollment_id
                    /\ lesson_progress[r].is_completed
                    /\ lesson_progress[r].lesson_id \in Eligible(course_id)})

update_enrollment_progress_completed(p) ==
    /\ req[p].pc = "recalc_completed"
    /\ req' = [req EXCEPT ![p].pc = "recalc_update",
                          ![p].completed_lessons =
                              CompletedLessons(req[p].enrollment_id, req[p].course_id)]
    /\ UNCHANGED <<catalog, progress_tables, quiz_tables>>

\* line 635, in hundredths: progress = (completed_lessons / total_lessons) * 100
Progress(completed_lessons, total_lessons) ==
    RoundDiv(completed_lessons * 10000, total_lessons)

\* lines 640-645 (a mutant: completion requires more than 100 percent)
UpdateDataOver100(enrollment, status, completed_lessons, total_lessons) ==
    LET progress == Progress(completed_lessons, total_lessons) IN
    IF completed_lessons > total_lessons /\ status # "completed"
    THEN [enrollment EXCEPT !.progress_percentage = progress,
                            !.status = "completed",
                            !.completed_at = utcnow(enrollment.completed_at)]
    ELSE IF completed_lessons > 0 /\ status = "enrolled"
    THEN [enrollment EXCEPT !.progress_percentage = progress,
                            !.status = "in_progress",
                            !.started_at = utcnow(enrollment.started_at)]
    ELSE [enrollment EXCEPT !.progress_percentage = progress]

\* lines 640-645 (a mutant: the second branch does not look at the status)
UpdateDataRestarts(enrollment, status, completed_lessons, total_lessons) ==
    LET progress == Progress(completed_lessons, total_lessons) IN
    IF completed_lessons >= total_lessons /\ status # "completed"
    THEN [enrollment EXCEPT !.progress_percentage = progress,
                            !.status = "completed",
                            !.completed_at = utcnow(enrollment.completed_at)]
    ELSE IF completed_lessons > 0 /\ completed_lessons < total_lessons
    THEN [enrollment EXCEPT !.progress_percentage = progress,
                            !.status = "in_progress",
                            !.started_at = utcnow(enrollment.started_at)]
    ELSE [enrollment EXCEPT !.progress_percentage = progress]

\* lines 640-645 (a mutant: the second branch fires on every status but completed)
UpdateDataStartsAgain(enrollment, status, completed_lessons, total_lessons) ==
    LET progress == Progress(completed_lessons, total_lessons) IN
    IF completed_lessons >= total_lessons /\ status # "completed"
    THEN [enrollment EXCEPT !.progress_percentage = progress,
                            !.status = "completed",
                            !.completed_at = utcnow(enrollment.completed_at)]
    ELSE IF completed_lessons > 0 /\ status # "completed"
    THEN [enrollment EXCEPT !.progress_percentage = progress,
                            !.status = "in_progress",
                            !.started_at = utcnow(enrollment.started_at)]
    ELSE [enrollment EXCEPT !.progress_percentage = progress]

\* lines 637-645: the row after UPDATE ... VALUES(**update_data)
UpdateData(enrollment, status, completed_lessons, total_lessons) ==
    LET progress == Progress(completed_lessons, total_lessons) IN
    IF completed_lessons >= total_lessons /\ status # "completed"
    THEN [enrollment EXCEPT !.progress_percentage = progress,
                            !.status = "completed",
                            !.completed_at = utcnow(enrollment.completed_at)]
    ELSE IF completed_lessons > 0 /\ status = "enrolled"
    THEN [enrollment EXCEPT !.progress_percentage = progress,
                            !.status = "in_progress",
                            !.started_at = utcnow(enrollment.started_at)]
    ELSE [enrollment EXCEPT !.progress_percentage = progress]

\* lines 635-652
update_enrollment_progress_update(p) ==
    /\ req[p].pc = "recalc_update"
    /\ LET e == req[p].enrollment_id
           row == UpdateData(enrollments[e], req[p].enrollment_status,
                             req[p].completed_lessons, req[p].total_lessons)
       IN  enrollments' = [enrollments EXCEPT ![e] = row]
    /\ Respond(p)
    /\ UNCHANGED <<catalog, lesson_progress, quiz_tables>>

----------------------------------------------------------------------------
(* Quiz definitions. No handler writes questions or answers: they are rows  *)
(* the tables hold from the start (models.py, Question and Answer).         *)

questions ==
    <<[quiz_id |-> 1, question_type |-> "multiple_choice", points |-> 5],
      [quiz_id |-> 1, question_type |-> "true_false",      points |-> 5],
      [quiz_id |-> 1, question_type |-> "essay",           points |-> 2],
      [quiz_id |-> 1, question_type |-> "short_answer",    points |-> 0],
      [quiz_id |-> 2, question_type |-> "multiple_choice", points |-> 3],
      [quiz_id |-> 1, question_type |-> "multiple_choice", points |-> -3]>>

answers ==
    <<[question_id |-> 1, is_correct |-> TRUE],
      [question_id |-> 1, is_correct |-> FALSE],
      [question_id |-> 2, is_correct |-> TRUE],
      [question_id |-> 5, is_correct |-> TRUE]>>

\* question.answers
AnswersOf(question_id) == {a \in Ids(answers) : answers[a].question_id = question_id}

QuizAttempt(quiz_id, student_id, enrollment_id, attempt_number) ==
    [quiz_id |-> quiz_id, student_id |-> student_id, enrollment_id |-> enrollment_id,
     completed_at |-> NULL, score |-> NO_SCORE, passed |-> FALSE,
     attempt_number |-> attempt_number]

\* a QuizAttemptResponse of the submission
QuizAttemptResponse(question_id, selected_answer_id, text_response) ==
    [question_id |-> question_id, selected_answer_id |-> selected_answer_id,
     text_response |-> text_response]

\* lines 379-386: count of the student's attempts on the quiz
AttemptCount(quiz_id, student_id) ==
    Cardinality({a \in Ids(quiz_attempts) : /\ quiz_attempts[a].quiz_id = quiz_id
                                             /\ quiz_attempts[a].student_id = student_id})

\* line 387 (a mutant: the limit is reached one attempt late)
AttemptLimitLate(attempt_count, max_attempts) == attempt_count > max_attempts

\* line 387 (a mutant: the limit is never reached)
AttemptLimitNever(attempt_count, max_attempts) == FALSE

\* line 387: attempt_count.scalar() >= quiz.max_attempts
AttemptLimitReached(attempt_count, max_attempts) == attempt_count >= max_attempts

\* line 395 (a mutant: attempts numbered from 0)
AttemptNumberFromZero(attempt_count) == attempt_count

\* line 395: attempt_number = attempt_count.scalar() + 1
AttemptNumber(attempt_count) == attempt_count + 1

\* lines 362-388: 404 "Quiz not found"; scalar_one_or_none() raises on two rows (500);
\* 404 "Enrollment not found"; 400 "Maximum attempts exceeded"
SubmitCheck(user_id, quiz_id) ==
    IF quiz_id \notin DOMAIN quizzes THEN 404
    ELSE IF Cardinality(ActiveEnrollmentsOf(user_id, quizzes[quiz_id].course_id)) > 1 THEN 500
    ELSE IF ActiveEnrollmentsOf(user_id, quizzes[quiz_id].course_id) = {} THEN 404
    ELSE IF AttemptLimitReached(AttemptCount(quiz_id, user_id), quizzes[quiz_id].max_attempts)
    THEN 400
    ELSE CONTINUE

\* lines 362-388: the quiz, the active enrollment, the attempt limit;
\* quiz_submission.responses is any one of `submissions`
submit_quiz_check(p, user_id, quiz_id, submissions) ==
    /\ req[p].pc = "idle"
    /\ IF SubmitCheck(user_id, quiz_id) # CONTINUE
       THEN Respond(p)
       ELSE \E responses \in submissions :
            req' = [req EXCEPT ![p] = [IdleReq EXCEPT
                      !.pc = "attempt_create",
                      !.user_id = user_id,
                      !.quiz_id = quiz_id,
                      !.responses = responses,
                      !.enrollment_id =
                          CHOOSE e \in ActiveEnrollmentsOf(user_id,
                                           quizzes[quiz_id].course_id) : TRUE,
                      !.attempt_count = AttemptCount(quiz_id, user_id)]]
    /\ UNCHANGED <<catalog, progress_tables, quiz_tables>>

\* lines 390-399 (a mutant: creating the attempt also starts the enrollment)
submit_quiz_create_starts(p) ==
    /\ req[p].pc = "attempt_create"
    /\ quiz_attempts' = Append(quiz_attempts,
            QuizAttempt(req[p].quiz_id, req[p].user_id, req[p].enrollment_id,
                        AttemptNumber(req[p].attempt_count)))
    /\ enrollments' = [enrollments EXCEPT ![req[p].enrollment_id].status = "in_progress"]
    /\ req' = [req EXCEPT ![p].pc = "grade", ![p].attempt_id = Len(quiz_attempts) + 1]
    /\ UNCHANGED <<catalog, lesson_progress, question_responses>>

\* lines 390-399: the attempt row and its commit
submit_quiz_create(p) ==
    /\ req[p].pc = "attempt_create"
    /\ quiz_attempts' = Append(quiz_attempts,
            QuizAttempt(req[p].quiz_id, req[p].user_id, req[p].enrollment_id,
                        AttemptNumber(req[p].attempt_count)))
    /\ req' = [req EXCEPT ![p].pc = "grade", ![p].attempt_id = Len(quiz_attempts) + 1]
    /\ UNCHANGED <<catalog, progress_tables, question_responses>>

\* lines 423-427 (a mutant: incorrect only when the question has the answer as a wrong one)
IsCorrectUnlessWrong(question_id, selected_answer_id) ==
    IF questions[question_id].question_type \in {"multiple_choice", "true_false"}
       /\ selected_answer_id # NULL
    THEN IF selected_answer_id \in AnswersOf(question_id)
            /\ ~answers[selected_answer_id].is_correct
         THEN "False" ELSE "True"
    ELSE "None"

\* lines 423-427 (a mutant: the selected answer is looked up among all answers)
IsCorrectAnyAnswer(question_id, selected_answer_id) ==
    IF questions[question_id].question_type \in {"multiple_choice", "true_false"}
       /\ selected_answer_id # NULL
    THEN IF selected_answer_id \in Ids(answers) /\ answers[selected_answer_id].is_correct
         THEN "True" ELSE "False"
    ELSE "None"

\* lines 420-432: is_correct of the response ("None" when it is left unset)
IsCorrect(question_id, selected_answer_id) ==
    IF questions[question_id].question_type \in {"multiple_choice", "true_false"}
       /\ selected_answer_id # NULL
    THEN IF selected_answer_id \in AnswersOf(question_id)
            /\ answers[selected_answer_id].is_correct
         THEN "True" ELSE "False"
    ELSE "None"

\* lines 429, 432; the column default 0 when it is left unset
PointsEarned(question_id, selected_answer_id) ==
    IF IsCorrect(question_id, selected_answer_id) = "True"
    THEN questions[question_id].points ELSE 0

\* lines 413-432: the QuestionResponse row of one response
QuestionResponse(attempt_id, r) ==
    [attempt_id |-> attempt_id, question_id |-> r.question_id,
     selected_answer_id |-> r.selected_answer_id, text_response |-> r.text_response,
     points_earned |-> PointsEarned(r.question_id, r.selected_answer_id),
     is_correct |-> IsCorrect(r.question_id, r.selected_answer_id)]

\* line 434 (a mutant: only auto-graded questions count toward the total)
TotalPointsGraded(responses) ==
    SumSeq([i \in 1..Len(responses) |->
                IF IsCorrect(responses[i].question_id, responses[i].selected_answer_id) = "None"
                THEN 0 ELSE questions[responses[i].question_id].points])

\* line 434, over the loop
TotalPoints(responses) ==
    SumSeq([i \in 1..Len(responses) |-> questions[responses[i].question_id].points])

\* line 435, over the loop
EarnedPoints(responses) ==
    SumSeq([i \in 1..Len(responses) |->
                PointsEarned(responses[i].question_id, responses[i].selected_answer_id)])

\* line 440, in hundredths
Score(earned_points, total_points) ==
    IF total_points > 0 THEN RoundDiv(earned_points * 10000, total_points) ELSE 0

\* line 441 (a mutant: a score equal to the passing score fails)
PassedStrict(earned_points, total_points, passing_score) ==
    IF total_points > 0
    THEN earned_points * 100 > passing_score * total_points
    ELSE 0 > passing_score

\* line 441: passed = score >= quiz.passing_score, on the unrounded float
Passed(earned_points, total_points, passing_score) ==
    IF total_points > 0
    THEN earned_points * 100 >= passing_score * total_points
    ELSE 0 >= passing_score

\* line 411: question.scalar_one() raises NoResultFound
UnknownQuestion(responses) ==
    \E i \in 1..Len(responses) : responses[i].question_id \notin Ids(questions)

\* lines 401-450: grade every response, finish the attempt, commit. An unknown
\* question id raises out of the loop: nothing staged since line 398 is committed.
submit_quiz_grade(p) ==
    /\ req[p].pc = "grade"
    /\ LET responses == req[p].responses
           a == req[p].attempt_id
       IN  IF UnknownQuestion(responses)
           THEN /\ Respond(p)
                /\ UNCHANGED quiz_tables
           ELSE /\ question_responses' = question_responses \o
                       [i \in 1..Len(responses) |-> QuestionResponse(a, responses[i])]
                /\ quiz_attempts' = [quiz_attempts EXCEPT
                       ![a].completed_at = utcnow(quiz_attempts[a].completed_at),
                       ![a].score = Score(EarnedPoints(responses), TotalPoints(responses)),
                       ![a].passed = Passed(EarnedPoints(responses), TotalPoints(responses),
                                            quizzes[req[p].quiz_id].passing_score)]
                /\ Respond(p)
    /\ UNCHANGED <<catalog, progress_tables>>

----------------------------------------------------------------------------
(* Inputs *)

\* every field of LessonProgressUpdate is optional: model_dump(exclude_unset=True)
\* of a request without body is empty, of a body with a watch time has that field
NoUpdate == [f \in {} |-> 0]
WatchTime == 30
ProgressUpdates == {NoUpdate, [time_spent_seconds |-> WatchTime]}

\* the bodies of LessonProgressUpdate: any of its three fields, each with a value
UpdateFields == {"last_position", "time_spent_seconds", "notes"}
FieldUpdates == UNION {[fields -> 1..MaxFieldValue] : fields \in SUBSET UpdateFields}

QuestionInputs == Ids(questions)
AnswerInputs == {NULL} \cup Ids(answers) \cup {Len(answers) + 1}
TextInputs == {NULL, 1}

ResponseInputs ==
    {QuizAttemptResponse(q, a, t) : q \in QuestionInputs, a \in AnswerInputs, t \in TextInputs}

RECURSIVE SeqsUpTo(_, _)
SeqsUpTo(S, n) ==
    IF n = 0 THEN {<<>>}
    ELSE LET shorter == SeqsUpTo(S, n - 1) IN
         shorter \cup {Append(s, x) : s \in shorter, x \in S}

Submissions == SeqsUpTo(ResponseInputs, MaxResponses)

\* two submissions: one right answer, and one naming a question that does not exist
FewSubmissions ==
    {<<QuizAttemptResponse(1, 1, NULL)>>,
     <<QuizAttemptResponse(Len(questions) + 1, NULL, NULL)>>}

\* the same two and a wrong answer, which fails the quiz
QuizSubmissions == FewSubmissions \cup {<<QuizAttemptResponse(1, 2, NULL)>>}

PassingScores == {60, 100, 101}

----------------------------------------------------------------------------
(* Specifications *)

Course(enrollment_limit) == [enrollment_limit |-> enrollment_limit]
Quiz(course_id, passing_score, max_attempts) ==
    [course_id |-> course_id, passing_score |-> passing_score,
     max_attempts |-> max_attempts]

InitTables ==
    /\ courses = [c \in CourseIds |-> Course(IF c = 1 THEN NO_LIMIT ELSE 1)]
    /\ enrollments = <<>>
    /\ lesson_progress = <<>>
    /\ quiz_attempts = <<>>
    /\ question_responses = <<>>
    /\ req = [p \in Procs |-> IdleReq]

\* the quiz engine: students enroll and submit, one request at a time
InitQuiz ==
    /\ InitTables
    /\ modules = <<>>
    /\ lessons = <<>>
    /\ \E n \in 0..MaxAttempts :
         quizzes = [q \in QuizIds |-> IF q = 1 THEN Quiz(1, 60, n) ELSE Quiz(2, 60, 1)]

NextQuiz ==
    \E p \in {1} :
        \/ \E u \in Students : enroll_user_existing(p, u, 1)
        \/ enroll_user_limit(p)
        \/ enroll_user_insert(p)
        \/ \E u \in Students, q \in {1, Cardinality(QuizIds) + 1} :
               submit_quiz_check(p, u, q, FewSubmissions)
        \/ submit_quiz_create(p)
        \/ submit_quiz_grade(p)

SpecQuiz == InitQuiz /\ [][NextQuiz]_vars

\* grading: one enrolled student submits every submission of up to MaxResponses
\* responses to quiz 1, under each passing score
InitGrade ==
    /\ InitTables
    /\ modules = <<>>
    /\ lessons = <<>>
    /\ \E ps \in PassingScores :
         quizzes = [q \in QuizIds |-> IF q = 1 THEN Quiz(1, ps, 1) ELSE Quiz(2, 60, 1)]

NextGrade ==
    \E p \in {1} :
        \/ enroll_user_existing(p, 1, 1)
        \/ enroll_user_limit(p)
        \/ enroll_user_insert(p)
        \/ submit_quiz_check(p, 1, 1, Submissions)
        \/ submit_quiz_create(p)
        \/ submit_quiz_grade(p)

SpecGrade == InitGrade /\ [][NextGrade]_vars

\* course catalogs that stay as they are: one lesson; the four published lessons
\* in two published modules of the spec's example; two eligible lessons beside a
\* lesson of an unpublished module; one eligible lesson beside an unpublished one
FixedCatalogs ==
    {<< <<Module(1, TRUE)>>, <<Lesson(1, TRUE)>> >>,
     << <<Module(1, TRUE), Module(1, TRUE)>>,
        <<Lesson(1, TRUE), Lesson(1, TRUE), Lesson(2, TRUE), Lesson(2, TRUE)>> >>,
     << <<Module(1, TRUE), Module(1, FALSE)>>,
        <<Lesson(1, TRUE), Lesson(1, TRUE), Lesson(2, TRUE)>> >>,
     << <<Module(1, TRUE)>>, <<Lesson(1, TRUE), Lesson(1, FALSE)>> >>}

\* the students who follow lessons: both, and one alone in the four-lesson catalog
Learners == IF Len(lessons) > 3 THEN {1} ELSE Students

\* the request bodies sent: with and without fields in the one-lesson catalog
Bodies == IF Len(lessons) < 2 THEN ProgressUpdates ELSE {NoUpdate}

\* lesson tracking over a fixed catalog: students enroll in course 1 and update
\* their lesson progress, one request at a time
InitFixed ==
    /\ InitTables
    /\ \E c \in FixedCatalogs : modules = c[1] /\ lessons = c[2]
    /\ quizzes = [q \in QuizIds |-> Quiz(q, 60, 1)]

NextFixed ==
    \E p \in {1} :
        \/ \E u \in Learners : enroll_user_existing(p, u, 1)
        \/ enroll_user_limit(p)
        \/ enroll_user_insert(p)
        \/ \E u \in Learners, l \in 1..(Len(lessons) + 1),
              d \in Bodies, c \in BOOLEAN :
               update_lesson_progress_fetch(p, u, l, d, c)
        \/ update_lesson_progress_commit(p)
        \/ update_enrollment_progress_total(p)
        \/ update_enrollment_progress_completed(p)
        \/ update_enrollment_progress_update(p)

SpecFixed == InitFixed /\ [][NextFixed]_vars

\* the whole service, one request at a time: a teacher adds modules and lessons to
\* course 1 while a student enrolls, follows lessons and submits quiz 1
Init ==
    /\ InitTables
    /\ modules = <<>>
    /\ lessons = <<>>
    /\ quizzes = [q \in QuizIds |-> Quiz(q, 60, 1)]

Next ==
    \E p \in {1} :
        \/ AllIdle /\ \E b \in BOOLEAN : create_module(1, b)
        \/ AllIdle /\ \E m \in Ids(modules), b \in BOOLEAN : create_lesson(m, b)
        \/ enroll_user_existing(p, 1, 1)
        \/ enroll_user_limit(p)
        \/ enroll_user_insert(p)
        \/ \E l \in 1..(Len(lessons) + 1), d \in ProgressUpdates, c \in BOOLEAN :
               update_lesson_progress_fetch(p, 1, l, d, c)
        \/ update_lesson_progress_commit(p)
        \/ update_enrollment_progress_total(p)
        \/ update_enrollment_progress_completed(p)
        \/ update_enrollment_progress_update(p)
        \/ submit_quiz_check(p, 1, 1, QuizSubmissions)
        \/ submit_quiz_create(p)
        \/ submit_quiz_grade(p)

Spec == Init /\ [][Next]_vars

\* enrollment: the users who apply, the limits course 1 may have, and a row
\* deactivated outside these services (no service clears is_active)
Applicants == 1..MaxApplicants
Limits == {NO_LIMIT, 0, 1, 2}
Dropped(student_id, course_id) ==
    [Enrollment(student_id, course_id) EXCEPT !.is_active = FALSE]

InitEnroll ==
    /\ \E k \in Limits : courses = [c \in CourseIds |-> IF c = 1 THEN Course(k) ELSE Course(1)]
    /\ modules = <<>>
    /\ lessons = <<>>
    /\ quizzes = [q \in QuizIds |-> Quiz(q, 60, 1)]
    /\ enrollments \in {<<>>, <<Dropped(1, 1)>>}
    /\ lesson_progress = <<>>
    /\ quiz_attempts = <<>>
    /\ question_responses = <<>>
    /\ req = [p \in Procs |-> IdleReq]

\* the enroll endpoint; a call is taken while the table has room for its row
enroll(p) ==
    \/ /\ Len(enrollments) + InFlight < MaxEnrollments
       /\ \E u \in Applicants, c \in CourseIds \cup {3} : enroll_user_existing(p, u, c)
    \/ enroll_user_limit(p)
    \/ enroll_user_insert(p)

\* enroll_user calls one after another
NextEnroll == \E p \in {1} : enroll(p)

SpecEnroll == InitEnroll /\ [][NextEnroll]_vars

\* enroll_user calls of two requests, interleaved at their reads and commits
NextEnrollRace == \E p \in Procs : enroll(p)

SpecEnrollRace == InitEnroll /\ [][NextEnrollRace]_vars

\* lesson tracking by two requests at once: student 1 is enrolled in course 1,
\* whose catalog is one module with one or with two published lessons
RaceCatalogs ==
    {<< <<Module(1, TRUE)>>, <<Lesson(1, TRUE)>> >>,
     << <<Module(1, TRUE)>>, <<Lesson(1, TRUE), Lesson(1, TRUE)>> >>}

InitRace ==
    /\ courses = [c \in CourseIds |-> Course(NO_LIMIT)]
    /\ \E c \in RaceCatalogs : modules = c[1] /\ lessons = c[2]
    /\ quizzes = [q \in QuizIds |-> Quiz(q, 60, 1)]
    /\ enrollments = <<Enrollment(1, 1)>>
    /\ lesson_progress = <<>>
    /\ quiz_attempts = <<>>
    /\ question_responses = <<>>
    /\ req = [p \in Procs |-> IdleReq]

\* calls of the complete endpoint (completed=True) interleaved at their reads and commits
NextRace ==
    \E p \in Procs :
        \/ \E l \in Ids(lessons) : update_lesson_progress_fetch(p, 1, l, NoUpdate, TRUE)
        \/ update_lesson_progress_commit(p)
        \/ update_enrollment_progress_total(p)
        \/ update_enrollment_progress_completed(p)
        \/ update_enrollment_progress_update(p)

SpecRace == InitRace /\ [][NextRace]_vars

\* the quiz engine with two requests at once: student 1 is enrolled in course 1
InitQuizRace ==
    /\ courses = [c \in CourseIds |-> Course(NO_LIMIT)]
    /\ modules = <<>>
    /\ lessons = <<>>
    /\ \E n \in 1..MaxAttempts :
          quizzes = [q \in QuizIds |-> IF q = 1 THEN Quiz(1, 60, n) ELSE Quiz(2, 60, 1)]
    /\ enrollments = <<Enrollment(1, 1)>>
    /\ lesson_progress = <<>>
    /\ quiz_attempts = <<>>
    /\ question_responses = <<>>
    /\ req = [p \in Procs |-> IdleReq]

\* submit_quiz calls interleaved at their reads and commits
NextQuizRace ==
    \E p \in Procs :
        \/ submit_quiz_check(p, 1, 1, FewSubmissions)
        \/ submit_quiz_create(p)
        \/ submit_quiz_grade(p)

SpecQuizRace == InitQuizRace /\ [][NextQuizRace]_vars

\* progress updates with bodies: student 1 is enrolled in course 1, which has one
\* published lesson, and sends updates with any fields, one request at a time
InitUpdate ==
    /\ courses = [c \in CourseIds |-> Course(NO_LIMIT)]
    /\ modules = <<Module(1, TRUE)>>
    /\ lessons = <<Lesson(1, TRUE)>>
    /\ quizzes = [q \in QuizIds |-> Quiz(q, 60, 1)]
    /\ enrollments = <<Enrollment(1, 1)>>
    /\ lesson_progress = <<>>
    /\ quiz_attempts = <<>>
    /\ question_responses = <<>>
    /\ req = [p \in Procs |-> IdleReq]

NextUpdate ==
    \E p \in {1} :
        \/ \E d \in FieldUpdates, c \in BOOLEAN : update_lesson_progress_fetch(p, 1, 1, d, c)
        \/ update_lesson_progress_commit(p)
        \/ update_enrollment_progress_total(p)
        \/ update_enrollment_progress_completed(p)
        \/ update_enrollment_progress_update(p)

SpecUpdate == InitUpdate /\ [][NextUpdate]_vars

\* refusals: course 1 has one published lesson, course 2 has one seat; the students
\* enroll, complete the lesson and submit quizzes, one request at a time, also where
\* they are not enrolled, a second time, and for a quiz that does not exist
InitReject ==
    /\ InitTables
    /\ modules = <<Module(1, TRUE)>>
    /\ lessons = <<Lesson(1, TRUE)>>
    /\ quizzes = [q \in QuizIds |-> Quiz(q, 60, 1)]

NextReject ==
    \E p \in {1} :
        \/ \E u \in Students, c \in CourseIds : enroll_user_existing(p, u, c)
        \/ enroll_user_limit(p)
        \/ enroll_user_insert(p)
        \/ \E u \in Students : update_lesson_progress_fetch(p, u, 1, NoUpdate, TRUE)
        \/ update_lesson_progress_commit(p)
        \/ update_enrollment_progress_total(p)
        \/ update_enrollment_progress_completed(p)
        \/ update_enrollment_progress_update(p)
        \/ \E u \in Students, q \in {1, Cardinality(QuizIds) + 1} :
               submit_quiz_check(p, u, q, FewSubmissions)
        \/ submit_quiz_create(p)
        \/ submit_quiz_grade(p)

SpecReject == InitReject /\ [][NextReject]_vars

----------------------------------------------------------------------------
(* Claims about submit_quiz *)

\* the question_responses rows of an attempt, in insertion order
ResponsesOf(a) ==
    LET OfAttempt(r) == r.attempt_id = a IN SelectSeq(question_responses, OfAttempt)

RowTotal(a) ==
    LET rows == ResponsesOf(a) IN
    SumSeq([i \in 1..Len(rows) |-> questions[rows[i].question_id].points])

RowEarned(a) ==
    LET rows == ResponsesOf(a) IN SumSeq([i \in 1..Len(rows) |-> rows[i].points_earned])

Completed(a) == quiz_attempts[a].completed_at # NULL

\* C1: in every committed state every QuizAttempt row is finalized: it has a
\* completion timestamp, a score and all of its QuestionResponse rows (the claim
\* as stated; the commit of line 398 publishes an attempt that has none of them).
C1_AttemptsFinalized ==
    \A a \in Ids(quiz_attempts) :
        /\ quiz_attempts[a].completed_at # NULL
        /\ quiz_attempts[a].score # NO_SCORE
        /\ \A p \in Procs : req[p].attempt_id = a =>
               Len(ResponsesOf(a)) = Len(req[p].responses)

\* C2: with calls run one after another, a (student, quiz) pair never has more
\* attempts than quiz.max_attempts; a call by an enrolled student when the count
\* has reached max_attempts is answered 400 and adds no attempt or response.
C2_AttemptLimit ==
    /\ [](\A u \in Students, q \in DOMAIN quizzes :
             /\ AttemptCount(q, u) <= quizzes[q].max_attempts
             /\ ( /\ AllIdle
                  /\ ActiveEnrollmentsOf(u, quizzes[q].course_id) # {}
                  /\ AttemptCount(q, u) >= quizzes[q].max_attempts )
                => SubmitCheck(u, q) = 400)
    /\ [][\A p \in Procs, u \in Students, q \in DOMAIN quizzes :
             (submit_quiz_check(p, u, q, FewSubmissions) /\ SubmitCheck(u, q) = 400)
             => /\ quiz_attempts' = quiz_attempts
                /\ question_responses' = question_responses
                /\ req'[p].pc = "idle"]_vars

\* C2 witness: a student has made both attempts of a quiz with max_attempts = 2, and
\* the next submission is the one that is refused
C2_Witness ==
    /\ AllIdle
    /\ quizzes[1].max_attempts = 2
    /\ \E u \in Students : AttemptCount(1, u) = 2 /\ SubmitCheck(u, 1) = 400

\* C3: every attempt's attempt_number is the number of earlier attempts of its
\* (student, quiz) pair plus one, so the numbers of a pair are 1..n without gap
\* or duplicate, and the attempt a submission returns carries the pair's count.
C3_SequentialNumbers ==
    /\ \A a \in Ids(quiz_attempts) :
          quiz_attempts[a].attempt_number =
              1 + Cardinality({b \in 1..(a - 1) :
                      /\ quiz_attempts[b].quiz_id = quiz_attempts[a].quiz_id
                      /\ quiz_attempts[b].student_id = quiz_attempts[a].student_id})
    /\ \A u \in Students, q \in DOMAIN quizzes :
          {quiz_attempts[a].attempt_number :
              a \in {x \in Ids(quiz_attempts) : /\ quiz_attempts[x].quiz_id = q
                                                /\ quiz_attempts[x].student_id = u}}
          = 1..AttemptCount(q, u)
    /\ \A p \in Procs :
          req[p].pc = "grade" =>
              quiz_attempts[req[p].attempt_id].attempt_number =
                  AttemptCount(req[p].quiz_id, req[p].user_id)

\* C3 witness: a student's second submission is about to return attempt number 2,
\* after a first one that raised while grading and left its row behind
C3_Witness ==
    \E p \in Procs :
        /\ req[p].pc = "grade"
        /\ quiz_attempts[req[p].attempt_id].attempt_number = 2
        /\ \E b \in Ids(quiz_attempts) :
               /\ quiz_attempts[b].student_id = req[p].user_id
               /\ quiz_attempts[b].attempt_number = 1
               /\ quiz_attempts[b].completed_at = NULL

AutoGraded(question_id) ==
    questions[question_id].question_type \in {"multiple_choice", "true_false"}

\* C4 as stated: an auto-gradable response with a selected answer is correct iff
\* that answer's correctness flag is true, whichever question the answer belongs to
C4_GradedByFlagAlone ==
    \A i \in Ids(question_responses) :
        LET r == question_responses[i] IN
        /\ (AutoGraded(r.question_id) /\ r.selected_answer_id \in Ids(answers)) =>
              /\ r.is_correct = (IF answers[r.selected_answer_id].is_correct
                                 THEN "True" ELSE "False")
              /\ r.points_earned = (IF answers[r.selected_answer_id].is_correct
                                    THEN questions[r.question_id].points ELSE 0)
        /\ ~AutoGraded(r.question_id) => r.is_correct = "None" /\ r.points_earned = 0

\* C4, amended: an auto-gradable response with a selected answer is correct iff the
\* selected answer is one of the question's own answers and is flagged correct, and
\* earns the question's points when correct and 0 otherwise; short_answer and essay
\* responses are left ungraded with 0 points, whatever answer id or text they carry.
C4_GradingRule ==
    \A i \in Ids(question_responses) :
        LET r == question_responses[i]
            own_and_correct ==
                \E a \in Ids(answers) : /\ a = r.selected_answer_id
                                        /\ answers[a].question_id = r.question_id
                                        /\ answers[a].is_correct
        IN
        /\ (AutoGraded(r.question_id) /\ r.selected_answer_id # NULL) =>
              /\ r.is_correct = (IF own_and_correct THEN "True" ELSE "False")
              /\ r.points_earned = (IF own_and_correct
                                    THEN questions[r.question_id].points ELSE 0)
        /\ ~AutoGraded(r.question_id) => r.is_correct = "None" /\ r.points_earned = 0

\* C4 witness: a response to a multiple_choice question selects the correct answer
\* of another question and is graded incorrect; an essay response carries an answer
\* id and a text and is left ungraded
C4_Witness ==
    /\ \E i \in Ids(question_responses) :
          LET r == question_responses[i] IN
          /\ AutoGraded(r.question_id)
          /\ r.selected_answer_id \in Ids(answers)
          /\ answers[r.selected_answer_id].is_correct
          /\ answers[r.selected_answer_id].question_id # r.question_id
          /\ r.is_correct = "False"
    /\ \E i \in Ids(question_responses) :
          LET r == question_responses[i] IN
          /\ questions[r.question_id].question_type = "essay"
          /\ r.selected_answer_id # NULL
          /\ r.text_response # NULL
          /\ r.is_correct = "None"

\* C5: a completed attempt's score is earned / total * 100 (two decimals) when the
\* point values of its submitted questions sum to total > 0, and 0 when they sum to
\* 0; passed is (earned / total * 100 >= passing_score), resp. (0 >= passing_score).
C5_ScoreFormula ==
    \A a \in Ids(quiz_attempts) :
        Completed(a) =>
            LET total == RowTotal(a)
                earned == RowEarned(a)
                passing == quizzes[quiz_attempts[a].quiz_id].passing_score
            IN
            /\ total > 0 =>
                  /\ 2 * (quiz_attempts[a].score * total - earned * 10000) <= total
                  /\ 2 * (earned * 10000 - quiz_attempts[a].score * total) < total
                  /\ quiz_attempts[a].passed = (earned * 100 >= passing * total)
            /\ total = 0 =>
                  /\ quiz_attempts[a].score = 0
                  /\ quiz_attempts[a].passed = (0 >= passing)

\* C5 witness: a right answer worth 5 and an ungraded essay worth 2 score 71.43,
\* which passes a passing score of 60
C5_Witness ==
    \E a \in Ids(quiz_attempts) :
        /\ Completed(a)
        /\ RowTotal(a) = 7
        /\ RowEarned(a) = 5
        /\ quiz_attempts[a].score = 7143
        /\ quiz_attempts[a].passed
        /\ quizzes[quiz_attempts[a].quiz_id].passing_score = 60

\* every answer the submission selects is a correct answer of its question
AllSelectedCorrect(a) ==
    LET rows == ResponsesOf(a) IN
    \A i \in 1..Len(rows) :
        rows[i].selected_answer_id # NULL =>
            /\ rows[i].selected_answer_id \in AnswersOf(rows[i].question_id)
            /\ answers[rows[i].selected_answer_id].is_correct

\* C6 as stated: with total points > 0, a submission whose selected answers are all
\* correct scores 100 and passes iff passing_score <= 100, for every mix of question
\* types, ungraded questions and unanswered questions included
C6_AllCorrectAnyMix ==
    \A a \in Ids(quiz_attempts) :
        (Completed(a) /\ RowTotal(a) > 0 /\ AllSelectedCorrect(a)) =>
            /\ quiz_attempts[a].score = 10000
            /\ quiz_attempts[a].passed =
                   (quizzes[quiz_attempts[a].quiz_id].passing_score <= 100)

\* every response answers an auto-gradable question with a correct answer of its own
AllAnsweredCorrectly(a) ==
    LET rows == ResponsesOf(a) IN
    \A i \in 1..Len(rows) :
        /\ AutoGraded(rows[i].question_id)
        /\ rows[i].selected_answer_id \in AnswersOf(rows[i].question_id)
        /\ answers[rows[i].selected_answer_id].is_correct

\* C6, amended: with total points > 0, a submission in which every response is to a
\* multiple_choice or true_false question and selects a correct answer of that
\* question scores 100 and passes iff passing_score <= 100.
C6_AllCorrectAutoGraded ==
    \A a \in Ids(quiz_attempts) :
        (Completed(a) /\ RowTotal(a) > 0 /\ AllAnsweredCorrectly(a)) =>
            /\ quiz_attempts[a].score = 10000
            /\ quiz_attempts[a].passed =
                   (quizzes[quiz_attempts[a].quiz_id].passing_score <= 100)

\* C6 witness: two right answers score 100 and pass a passing score of exactly 100
C6_Witness ==
    \E a \in Ids(quiz_attempts) :
        /\ Completed(a)
        /\ Len(ResponsesOf(a)) = 2
        /\ AllAnsweredCorrectly(a)
        /\ quiz_attempts[a].score = 10000
        /\ quiz_attempts[a].passed
        /\ quizzes[quiz_attempts[a].quiz_id].passing_score = 100

----------------------------------------------------------------------------
(* Claims about update_lesson_progress and _update_enrollment_progress *)

EligibleCount(e) == Cardinality(Eligible(enrollments[e].course_id))
CompletedCount(e) == CompletedLessons(e, enrollments[e].course_id)

\* percentage (in hundredths) is completed / total * 100 to two decimals
IsPercentage(percentage, completed, total) ==
    /\ 2 * (percentage * total - completed * 10000) <= total
    /\ 2 * (completed * 10000 - percentage * total) <= total

\* C7: over a fixed catalog with an eligible lesson, in every committed state the
\* stored progress_percentage is (completed eligible lessons) / (eligible lessons)
\* * 100 (the claim as stated; the commit of line 338 publishes the completed
\* lesson before the recalculation has run).
C7_PercentageInStep ==
    \A e \in Ids(enrollments) :
        EligibleCount(e) > 0 =>
            IsPercentage(enrollments[e].progress_percentage,
                         CompletedCount(e), EligibleCount(e))

\* C8: a lesson-progress record is stamped once, on its first transition to completed;
\* later calls with completed true or false keep is_completed and completed_at, add
\* no second record and leave the completed count and the percentage as they were.
C8_CompletionIdempotent ==
    /\ [](\A r \in Ids(lesson_progress) :
             /\ lesson_progress[r].is_completed <=> lesson_progress[r].completed_at # NULL
             /\ lesson_progress[r].completed_at \in {NULL, utcnow(NULL)}
             /\ ProgressOf(lesson_progress[r].enrollment_id,
                           lesson_progress[r].lesson_id) = {r})
    /\ [][\A r \in Ids(lesson_progress) :
             lesson_progress[r].is_completed =>
                 /\ lesson_progress'[r].is_completed
                 /\ lesson_progress'[r].completed_at = lesson_progress[r].completed_at]_vars
    /\ [][\A p \in Procs :
             (update_lesson_progress_commit(p) /\ req[p].progress.is_completed) =>
                 /\ Len(lesson_progress') = Len(lesson_progress)
                 /\ \A e \in Ids(enrollments) : CompletedCount(e)' = CompletedCount(e)]_vars
    /\ [][\A p \in Procs :
             (update_enrollment_progress_update(p) /\ req[p].progress.is_completed) =>
                 enrollments'[req[p].enrollment_id].progress_percentage =
                     enrollments[req[p].enrollment_id].progress_percentage]_vars

\* C8 witness: a completed lesson has been marked complete again, its record is
\* committed and the recalculation is about to write the percentage
C8_Witness ==
    \E p \in Procs :
        /\ req[p].pc = "recalc_update"
        /\ req[p].completed
        /\ req[p].progress.is_completed
        /\ lesson_progress[req[p].progress_id].completed_at = utcnow(NULL)

\* C9: over a fixed catalog with N >= 1 eligible lessons, once the calls have run to
\* completion an enrollment with all N completed is completed, at exactly 100 and
\* has a completion timestamp; with k of them (0 < k < N) it is at k/N*100 and
\* in_progress.
C9_Convergence ==
    AllIdle =>
        \A e \in Ids(enrollments) :
            LET n == EligibleCount(e)
                k == CompletedCount(e)
            IN  /\ (n >= 1 /\ k = n) =>
                       /\ enrollments[e].status = "completed"
                       /\ enrollments[e].progress_percentage = 10000
                       /\ enrollments[e].completed_at # NULL
                /\ (0 < k /\ k < n) =>
                       /\ enrollments[e].status = "in_progress"
                       /\ IsPercentage(enrollments[e].progress_percentage, k, n)

\* C9 witness: 2 of 4 lessons completed gives 50.00 and in_progress
C9_Witness ==
    /\ AllIdle
    /\ \E e \in Ids(enrollments) :
          /\ EligibleCount(e) = 4
          /\ CompletedCount(e) = 2
          /\ enrollments[e].progress_percentage = 5000
          /\ enrollments[e].status = "in_progress"

\* C10: with calls run one after another, catalog changes included, an enrollment
\* that is completed stays completed and keeps its completion timestamp.
C10_CompletedIsFinal ==
    [][\A e \in Ids(enrollments) :
          enrollments[e].status = "completed" =>
              /\ enrollments'[e].status = "completed"
              /\ enrollments'[e].completed_at = enrollments[e].completed_at]_vars

\* C10 witness: a lesson was added after the enrollment completed and a later
\* recalculation lowered the percentage to 50.00; the status is still completed
C10_Witness ==
    /\ AllIdle
    /\ \E e \in Ids(enrollments) :
          /\ enrollments[e].status = "completed"
          /\ enrollments[e].progress_percentage = 5000
          /\ enrollments[e].completed_at = utcnow(NULL)

\* C11: started_at is written only by a recalculation that finds 0 < percentage < 100
\* on an enrolled enrollment and moves it to in_progress; it is written at most once
\* and later recalculations, in_progress or completed, leave it as it is.
C11_StartedOnce ==
    /\ [](\A e \in Ids(enrollments) :
             enrollments[e].started_at \in {NULL, utcnow(NULL)})
    /\ [][\A e \in Ids(enrollments) :
             enrollments'[e].started_at # enrollments[e].started_at =>
                 /\ enrollments[e].started_at = NULL
                 /\ enrollments[e].status = "enrolled"
                 /\ enrollments'[e].status = "in_progress"
                 /\ 0 < enrollments'[e].progress_percentage
                 /\ enrollments'[e].progress_percentage < 10000]_vars
    /\ [][\A p \in Procs :
             (update_enrollment_progress_update(p)
                /\ enrollments[req[p].enrollment_id].status # "enrolled") =>
                 enrollments'[req[p].enrollment_id].started_at =
                     enrollments[req[p].enrollment_id].started_at]_vars

\* C11 witness: an enrollment that started, was recalculated again while in_progress
\* (that recalculation completed it) and still has its first start timestamp
C11_Witness ==
    /\ AllIdle
    /\ \E e \in Ids(enrollments) :
          /\ enrollments[e].status = "completed"
          /\ enrollments[e].started_at = utcnow(NULL)
          /\ enrollments[e].completed_at = utcnow(NULL)
          /\ enrollments[e].progress_percentage = 10000

----------------------------------------------------------------------------
(* Claims about enroll_user *)

OneRowPerPair ==
    \A u \in Applicants, c \in CourseIds : Cardinality(EnrollmentsOf(u, c)) <= 1

\* C12: with enroll_user calls one after another there is at most one Enrollment row
\* per (student, course); a call for a pair that has a row, active or not, answers
\* 400 and writes nothing; a successful call adds exactly one row, with status
\* enrolled, percentage 0 and is_active true.
C12_OneEnrollmentPerPair ==
    /\ []OneRowPerPair
    /\ [][\A p \in Procs, u \in Applicants, c \in CourseIds :
             (enroll_user_existing(p, u, c) /\ EnrollmentsOf(u, c) # {}) =>
                 /\ EnrollExisting(u, c) = 400
                 /\ enrollments' = enrollments
                 /\ req'[p].pc = "idle"]_vars
    /\ [][\A p \in Procs :
             enroll_user_insert(p) =>
                 /\ Len(enrollments') = Len(enrollments) + 1
                 /\ SubSeq(enrollments', 1, Len(enrollments)) = enrollments
                 /\ enrollments'[Len(enrollments')] =
                        [student_id |-> req[p].user_id, course_id |-> req[p].course_id,
                         started_at |-> NULL, completed_at |-> NULL,
                         progress_percentage |-> 0, status |-> "enrolled",
                         is_active |-> TRUE]
                 /\ EnrollmentsOf(req[p].user_id, req[p].course_id) = {}]_vars
    /\ [][enrollments' # enrollments => \E p \in Procs : enroll_user_insert(p)]_vars

\* C12 witness: student 1 has an inactive row in course 1 and is refused; other
\* students have enrolled since
C12_Witness ==
    /\ AllIdle
    /\ \E e \in EnrollmentsOf(1, 1) : ~enrollments[e].is_active
    /\ EnrollExisting(1, 1) = 400
    /\ \E e \in EnrollmentsOf(2, 1) : enrollments[e].is_active
    /\ EnrollExisting(2, 1) = 400

\* C13: for every course with enrollment_limit = K, K >= 0 (K = 0 included), the
\* number of active enrollments never exceeds K (the claim as stated; line 213
\* tests the limit for truth, so a limit of 0 is taken for no limit).
C13_Capacity ==
    \A c \in DOMAIN courses :
        courses[c].enrollment_limit # NO_LIMIT =>
            ActiveCount(c) <= courses[c].enrollment_limit

----------------------------------------------------------------------------
(* Claims about concurrent requests *)

OneRecordPerLesson ==
    \A r \in Ids(lesson_progress) :
        ProgressOf(lesson_progress[r].enrollment_id, lesson_progress[r].lesson_id) = {r}

\* C14: once interleaved update_lesson_progress calls on one enrollment have all
\* finished, the enrollment's percentage and status are those of a serial execution:
\* the percentage is completed / eligible * 100 for the completed records there are,
\* and the status is completed when every eligible lesson is completed (the claim
\* as stated; each call counts and writes in steps of its own, so a stale count or
\* a stale status is written last).
C14_SerialOutcome ==
    (AllIdle /\ OneRecordPerLesson) =>
        \A e \in Ids(enrollments) :
            EligibleCount(e) > 0 =>
                /\ IsPercentage(enrollments[e].progress_percentage,
                                CompletedCount(e), EligibleCount(e))
                /\ CompletedCount(e) = EligibleCount(e) =>
                       enrollments[e].status = "completed"

\* C15: under any interleaving of submit_quiz calls of one student on one quiz, the
\* pair never has more than max_attempts attempts and no two of its attempts share
\* an attempt_number (the claim as stated; the count of lines 378-386 and the
\* insert of lines 390-398 are separate steps and nothing in the table is unique).
C15_AttemptsUnderRace ==
    \A u \in Students, q \in QuizIds :
        LET rows == {a \in Ids(quiz_attempts) : /\ quiz_attempts[a].student_id = u
                                                 /\ quiz_attempts[a].quiz_id = q}
        IN  /\ Cardinality(rows) <= quizzes[q].max_attempts
            /\ \A a, b \in rows :
                   quiz_attempts[a].attempt_number = quiz_attempts[b].attempt_number
                       => a = b

\* C16: under any interleaving of enroll_user calls there is never more than one
\* Enrollment row for a (student, course) and a course with enrollment_limit K >= 1
\* never has more than K active enrollments (the claim as stated; the existence
\* check, the count and the insert are separate steps and the table has no unique
\* constraint on the pair).
C16_EnrollUnderRace ==
    /\ OneRowPerPair
    /\ \A c \in DOMAIN courses :
           courses[c].enrollment_limit >= 1 =>
               ActiveCount(c) <= courses[c].enrollment_limit

\* C17: there is at most one LessonProgress record per (enrollment, lesson) in every
\* reachable state, interleaved calls for one student and lesson included, and the
\* completed count of an enrollment never exceeds its eligible count (the claim as
\* stated; the fetch of lines 311-320 and the insert of lines 322-338 are separate
\* steps and the table has no unique constraint on the pair).
C17_OneRecordUnderRace ==
    /\ OneRecordPerLesson
    /\ \A e \in Ids(enrollments) : CompletedCount(e) <= EligibleCount(e)

----------------------------------------------------------------------------
(* Claims about the fields of a lesson-progress update *)

\* the record a call writes: a new one, or the one it fetched
WrittenId(p) ==
    IF req[p].progress_id = NULL THEN Len(lesson_progress) + 1 ELSE req[p].progress_id

\* C18: of last_position, time_spent_seconds and notes, update_lesson_progress writes
\* exactly the fields present in the update; a field absent from it keeps the value
\* the record had (the column default on a new record), and an update with no fields
\* changes none of the three.
C18_PartialUpdate ==
    [][\A p \in Procs :
          update_lesson_progress_commit(p) =>
              \A f \in UpdateFields :
                  lesson_progress'[WrittenId(p)][f] =
                      IF f \in DOMAIN req[p].update_dict
                      THEN req[p].update_dict[f]
                      ELSE IF req[p].progress_id = NULL
                           THEN LessonProgress(req[p].enrollment_id, req[p].lesson_id)[f]
                           ELSE lesson_progress[req[p].progress_id][f]]_vars

\* C18 witness: an update carrying only last_position has been committed on a record
\* whose time spent and notes came from earlier updates and are still there
C18_Witness ==
    \E p \in Procs :
        /\ req[p].pc = "recalc_total"
        /\ DOMAIN req[p].update_dict = {"last_position"}
        /\ lesson_progress[req[p].progress_id].last_position = req[p].update_dict.last_position
        /\ lesson_progress[req[p].progress_id].time_spent_seconds = 2
        /\ lesson_progress[req[p].progress_id].notes = 1
        /\ req[p].progress.last_position # req[p].update_dict.last_position

\* C19: time_spent_seconds is cumulative: a call carrying a time-spent increment
\* leaves the record with the time it had plus the increment, so the record holds
\* the sum of the increments submitted (the claim as stated; line 332 assigns the
\* submitted value to the column).
C19_TimeAccumulates ==
    [][\A p \in Procs :
          (update_lesson_progress_commit(p)
             /\ "time_spent_seconds" \in DOMAIN req[p].update_dict) =>
              lesson_progress'[WrittenId(p)].time_spent_seconds =
                  (IF req[p].progress_id = NULL THEN 0
                   ELSE lesson_progress[req[p].progress_id].time_spent_seconds)
                  + req[p].update_dict.time_spent_seconds]_vars

----------------------------------------------------------------------------
(* Claims about what submit_quiz leaves alone *)

\* C20: no step of submit_quiz, accepted or refused, passed or failed, changes an
\* Enrollment row or a LessonProgress row; the percentage of an enrollment changes
\* only in the recalculation of update_lesson_progress.
C20_SubmitLeavesProgress ==
    /\ [][\A p \in Procs :
             (\/ submit_quiz_check(p, 1, 1, QuizSubmissions)
              \/ submit_quiz_create(p)
              \/ submit_quiz_grade(p)) =>
                 /\ enrollments' = enrollments
                 /\ lesson_progress' = lesson_progress]_vars
    /\ [][\A e \in Ids(enrollments) :
             enrollments'[e].progress_percentage # enrollments[e].progress_percentage =>
                 \E p \in Procs : update_enrollment_progress_update(p)]_vars

\* C20 witness: a failed attempt has been graded while the enrollment stands at
\* 50.00, in_progress, with a completed lesson
C20_Witness ==
    /\ AllIdle
    /\ \E a \in Ids(quiz_attempts) :
          /\ Completed(a)
          /\ ~quiz_attempts[a].passed
          /\ enrollments[quiz_attempts[a].enrollment_id].progress_percentage = 5000
          /\ enrollments[quiz_attempts[a].enrollment_id].status = "in_progress"
    /\ \E r \in Ids(lesson_progress) : lesson_progress[r].is_completed

----------------------------------------------------------------------------
(* Claims about refused calls *)

\* the call of slot p has ended and no table has changed
Refused(p) ==
    /\ req'[p].pc = "idle"
    /\ UNCHANGED <<catalog, progress_tables, quiz_tables>>

\* C21: a call refused by a precondition check ends without writing: update_lesson_progress
\* without an active enrollment in the lesson's course; submit_quiz for an unknown
\* quiz, without an active enrollment in the quiz's course, or at the attempt limit;
\* enroll_user for a pair that has a row, or for a course whose seats are taken.
C21_RefusedWritesNothing ==
    [][\A p \in Procs, u \in Students :
          /\ (/\ update_lesson_progress_fetch(p, u, 1, NoUpdate, TRUE)
              /\ ActiveEnrollmentsOf(u, LessonCourse(1)) = {}) => Refused(p)
          /\ \A q \in {1, Cardinality(QuizIds) + 1} :
                 (/\ submit_quiz_check(p, u, q, FewSubmissions)
                  /\ \/ q \notin DOMAIN quizzes
                     \/ ActiveEnrollmentsOf(u, quizzes[q].course_id) = {}
                     \/ AttemptCount(q, u) >= quizzes[q].max_attempts) => Refused(p)
          /\ \A c \in CourseIds :
                 (enroll_user_existing(p, u, c) /\ EnrollmentsOf(u, c) # {}) => Refused(p)
          /\ (/\ enroll_user_limit(p)
              /\ courses[req[p].course_id].enrollment_limit >= 1
              /\ ActiveCount(req[p].course_id) >= courses[req[p].course_id].enrollment_limit)
                 => Refused(p)]_vars

\* C21 witness: every kind of refusal is due: student 1 is enrolled in course 1 and
\* has used the one attempt of quiz 1, student 2 holds the one seat of course 2
C21_Witness ==
    /\ AllIdle
    /\ EnrollExisting(1, 1) = 400
    /\ EnrollExisting(1, 2) = CONTINUE /\ EnrollLimit(2) = 400
    /\ ProgressFetch(2, 1) = 404
    /\ SubmitCheck(2, 1) = 404
    /\ SubmitCheck(1, 1) = 400
    /\ SubmitCheck(1, Cardinality(QuizIds) + 1) = 404
    /\ Len(quiz_attempts) = 1 /\ Len(enrollments) = 2

\* C22: the complete endpoint answers 403 to a caller without an active enrollment
\* in the course of an existing lesson, and 404 for an unknown lesson (the claim as
\* stated; line 309 raises 404 "Enrollment not found").
C22_NotEnrolledIs403 ==
    \A u \in Students :
        /\ \A l \in Ids(lessons) :
               ActiveEnrollmentsOf(u, LessonCourse(l)) = {} => complete_lesson(u, l) = 403
        /\ complete_lesson(u, Len(lessons) + 1) = 404

----------------------------------------------------------------------------
(* Claims about submissions that fail or are malformed *)

\* C23: a submit_quiz call that fails after it has started leaves nothing behind:
\* once no call is in flight every QuizAttempt row is a finished one, with its score
\* and its responses, so failed calls do not count toward max_attempts (the claim
\* as stated; the attempt committed at line 398 stays when grading raises).
C23_FailedLeavesNothing ==
    AllIdle =>
        \A a \in Ids(quiz_attempts) :
            /\ Completed(a)
            /\ quiz_attempts[a].score # NO_SCORE

\* C24: every persisted QuestionResponse references a question of its attempt's quiz
\* (the claim as stated; a submission naming a question of another quiz is not
\* refused, and its points enter the score).
C24_QuestionsOfTheQuiz ==
    \A r \in Ids(question_responses) :
        questions[question_responses[r].question_id].quiz_id =
            quiz_attempts[question_responses[r].attempt_id].quiz_id

\* C25: every completed QuizAttempt has a score from 0 to 100, for every submission
\* submit_quiz accepts (the claim as stated; Question.points may be negative, so
\* the earned points can exceed the total or the total can be the smaller one).
C25_ScoreInRange ==
    \A a \in Ids(quiz_attempts) :
        Completed(a) =>
            /\ quiz_attempts[a].score >= 0
            /\ quiz_attempts[a].score <= 10000

\* C29: a response to a multiple_choice or true_false question whose selected answer
\* is not one of the question's own answers (the correct answer of another question,
\* an id that does not exist) is graded incorrect with 0 points; a response earns
\* points only when its selected answer belongs to its question and is flagged correct.
C29_ForeignAnswerIsWrong ==
    \A i \in Ids(question_responses) :
        LET r == question_responses[i] IN
        /\ (/\ AutoGraded(r.question_id)
            /\ r.selected_answer_id # NULL
            /\ r.selected_answer_id \notin AnswersOf(r.question_id)) =>
               r.is_correct = "False" /\ r.points_earned = 0
        /\ r.points_earned # 0 =>
               /\ r.selected_answer_id \in AnswersOf(r.question_id)
               /\ answers[r.selected_answer_id].is_correct

\* C29 witness: one attempt holds a response selecting an answer id that does not
\* exist and a response selecting the correct answer of another question, both
\* graded incorrect with 0 points
C29_Witness ==
    \E i, j \in Ids(question_responses) :
        /\ question_responses[i].attempt_id = question_responses[j].attempt_id
        /\ Completed(question_responses[i].attempt_id)
        /\ AutoGraded(question_responses[i].question_id)
        /\ question_responses[i].selected_answer_id = Len(answers) + 1
        /\ question_responses[i].is_correct = "False"
        /\ question_responses[i].points_earned = 0
        /\ question_responses[j].question_id = 1
        /\ question_responses[j].selected_answer_id = 3
        /\ question_responses[j].is_correct = "False"
        /\ question_responses[j].points_earned = 0

----------------------------------------------------------------------------
(* Claims about the recalculation *)

\* a completed record of enrollment e on a lesson that is not eligible
UncountedRow(e) ==
    \E r \in Ids(lesson_progress) :
        /\ lesson_progress[r].enrollment_id = e
        /\ lesson_progress[r].is_completed
        /\ lesson_progress[r].lesson_id \notin Eligible(enrollments[e].course_id)

\* C26: with calls one after another and catalog changes in between, every
\* enrollment's progress_percentage is from 0 to 100, completions of unpublished
\* lessons and of lessons of unpublished modules included.
C26_PercentageInRange ==
    \A e \in Ids(enrollments) :
        /\ enrollments[e].progress_percentage >= 0
        /\ enrollments[e].progress_percentage <= 10000

\* C26 witness: an enrollment at 100 that also has a completed record on a lesson
\* that is not published
C26_Witness ==
    /\ AllIdle
    /\ \E e \in Ids(enrollments) :
          /\ enrollments[e].progress_percentage = 10000
          /\ UncountedRow(e)
          /\ CompletedCount(e) = EligibleCount(e)

\* C27: when the enrollment's course has an eligible lesson, the recalculation writes
\* progress_percentage = completed / total * 100 whatever the status is and whether
\* or not it changes; total counts the published lessons of published modules of
\* the course, completed the enrollment's completed records on those lessons.
C27_WritesPercentage ==
    /\ [][\A p \in Procs :
             update_enrollment_progress_update(p) =>
                 LET e == req[p].enrollment_id
                     counted == {l \in Ids(lessons) :
                                   /\ lessons[l].is_published
                                   /\ modules[lessons[l].module_id].is_published
                                   /\ modules[lessons[l].module_id].course_id =
                                          enrollments[e].course_id}
                     total == Cardinality(counted)
                     completed == Cardinality({r \in Ids(lesson_progress) :
                                     /\ lesson_progress[r].enrollment_id = e
                                     /\ lesson_progress[r].is_completed
                                     /\ lesson_progress[r].lesson_id \in counted})
                 IN  /\ total > 0
                     /\ enrollments'[e].progress_percentage =
                            RoundDiv(completed * 10000, total)]_vars
    /\ [][\A p \in Procs :
             (update_enrollment_progress_total(p) /\ Eligible(req[p].course_id) # {}) =>
                 req'[p].pc = "recalc_completed"]_vars

\* C27 witness: the percentage of a completed enrollment was rewritten to 50.00
\* after a second lesson was added; the status did not change, and the enrollment
\* has a second record, which is not completed
C27_Witness ==
    /\ AllIdle
    /\ \E e \in Ids(enrollments) :
          /\ enrollments[e].status = "completed"
          /\ enrollments[e].progress_percentage = 5000
          /\ EligibleCount(e) = 2
          /\ CompletedCount(e) = 1
          /\ \E r \in Ids(lesson_progress) :
                /\ lesson_progress[r].enrollment_id = e
                /\ ~lesson_progress[r].is_completed

\* C28: when the enrollment's course has no eligible lesson the recalculation ends
\* without writing and without an error: the enrollment row is as it was, and the
\* lesson-progress record committed before it stays.
C28_NoLessonsNoWrite ==
    [][\A p \in Procs :
          (update_enrollment_progress_total(p) /\ Eligible(req[p].course_id) = {}) =>
              /\ enrollments' = enrollments
              /\ lesson_progress' = lesson_progress
              /\ lesson_progress[req[p].progress_id].lesson_id = req[p].lesson_id
              /\ req'[p].pc = "idle"]_vars

\* C28 witness: a lesson of a course without eligible lessons has been completed;
\* its record is stored and the enrollment is as enroll_user created it
C28_Witness ==
    /\ AllIdle
    /\ \E e \in Ids(enrollments) :
          /\ EligibleCount(e) = 0
          /\ UncountedRow(e)
          /\ enrollments[e] = Enrollment(enrollments[e].student_id, enrollments[e].course_id)

\* C30: an enrollment whose status is in_progress or completed has a start timestamp
\* (the claim as stated; the first branch of lines 640-642 completes an enrolled
\* enrollment without writing started_at).
C30_StartedWhenActive ==
    \A e \in Ids(enrollments) :
        enrollments[e].status \in {"in_progress", "completed"} =>
            enrollments[e].started_at # NULL

====
